---- MODULE Spec2Model ----
(***************************************************************************)
(* Node/link persistence engine of the SQLAlchemy backend                  *)
(* (aiida/orm/implementation/sqlalchemy/node.py).                          *)
(*                                                                         *)
(* The state is the set of in-memory Node objects (storage flag, attribute *)
(* cache, input-link cache, location of the file folder, the DbNode row    *)
(* object), the SQLAlchemy session (rows and links added but not yet       *)
(* committed) and the committed database.  Every public handler is one     *)
(* action; the handlers are written as operators on a state record S so    *)
(* that store_all can call store, which calls the link flush, exactly as   *)
(* the code nests them.                                                    *)
(***************************************************************************)
EXTENDS Integers, Sequences, FiniteSets, TLC

VARIABLES to_be_stored, attrs_cache, inputlinks_cache, files, dbnode,
          sess_nodes, sess_links, db_rows, db_links,
          current_autogroup, group, w_links, last

vars == <<to_be_stored, attrs_cache, inputlinks_cache, files, dbnode,
          sess_nodes, sess_links, db_rows, db_links,
          current_autogroup, group, w_links, last>>

----------------------------------------------------------------------------
(* Universe and bounds *)

Nodes == {"A", "B", "C"}
Labels == {"L1", "L2"}
LinkTypes == {"CREATE", "INPUT", "UNSPECIFIED"}
Keys == {"x", "y"}
\* Sealable.SEALED_KEY, the attribute that marks a sealed node
SEALED_KEY == "_sealed"
AttrKeys == Keys \cup {SEALED_KEY}
Vals == {1}

\* The link requests the callers issue: (source, destination, label, type)
LinkRequests ==
    { <<"A", "B", "L1", "INPUT">>,        \* a parent link
      <<"B", "C", "L1", "CREATE">>,       \* makes A a grandparent of C
      <<"C", "A", "L1", "INPUT">>,        \* closes the chain A -> B -> C
      <<"C", "B", "L1", "UNSPECIFIED">>,  \* a weak link back, label of the parent link
      <<"C", "B", "L2", "INPUT">>,        \* a strong link back, second label on B
      <<"A", "A", "L2", "INPUT">> }       \* a self link

\* the link requests of the runs that exercise the store coordinator
StoreRequests ==
    { <<"A", "B", "L1", "INPUT">>,
      <<"B", "C", "L1", "CREATE">>,
      <<"C", "B", "L2", "INPUT">>,
      <<"C", "B", "L1", "UNSPECIFIED">> }

\* the link requests of the two racing callers
RaceRequests ==
    { <<"A", "B", "L1", "INPUT">>,
      <<"B", "A", "L1", "CREATE">>,
      <<"C", "B", "L1", "UNSPECIFIED">>,
      <<"C", "B", "L2", "INPUT">> }

\* the nodes whose attributes the callers set
AttrNodes == {"B"}
\* the key the callers of the store runs set
StoreKeys == {"x"}

MaxLinks == 3
MaxVersion == 2

NoLabel == "None"
NoVal == 0
NoNode == "none"

\* Errors raised by the handlers
Ok == "ok"
ValidationError == "ValidationError"
ModificationNotAllowed == "ModificationNotAllowed"
FileError == "OSError"
RowError == "SQLAlchemyError"
SelfLinkError == "ValueError: Cannot link to itself"
CycleError == "ValueError: would generate a loop"
UniquenessError == "UniquenessError"
InternalError == "InternalError"
AttributeError == "AttributeError"
\* not an error: the insert waits for another session's uncommitted row
Blocked == "blocked"

SafetyLimit == 100

EmptyAttrs == [k \in AttrKeys |-> NoVal]
EmptyExtras == [k \in Keys |-> NoVal]
NoEntry == [src |-> NoNode, type |-> "none"]
EmptyLinkCache == [l \in Labels |-> NoEntry]

\* dbnode.id of a row object that was never flushed
NoPk == 0
\* the key the backend gives to the row of each node
PkOf == [n \in Nodes |-> CASE n = "A" -> 1 [] n = "B" -> 2 [] OTHER -> 3]
\* get_new_uuid(): the values of the objects built at the start, and the
\* values later constructions can draw
InitialUuid == [n \in Nodes |-> "uuid-" \o n]
UUIDs == {InitialUuid[n] : n \in Nodes} \cup {"uuid-new"}
NoUuid == "none"
\* _plugin_type_string of the class of each object built at the start
InitialType == [n \in Nodes |-> IF n = "A" THEN "calculation." ELSE "data."]
NoComputer == "None"
Computers == {"comp1", "comp2"}
Texts == {"", "text"}

\* DbNode(user=user, uuid=uuid, type=type): a row object that is not saved
DbNode(uuid, type) ==
    [attributes |-> EmptyAttrs, nodeversion |-> 1, extras |-> EmptyExtras,
     id |-> NoPk, uuid |-> uuid, type |-> type, label |-> "",
     description |-> "", dbcomputer |-> NoComputer]

NoRow == [present |-> FALSE, attributes |-> EmptyAttrs, nodeversion |-> 0,
          extras |-> EmptyExtras, id |-> NoPk, uuid |-> NoUuid, type |-> "",
          label |-> "", description |-> "", dbcomputer |-> NoComputer]

Link(src, dst, label, type) ==
    [input |-> src, output |-> dst, label |-> label, type |-> type]

\* Injected outcome of the external collaborators during one call
NoFault == <<"none", NoNode>>
FaultNodes == {"B"}
Faults == {<<"none", NoNode>>}
          \cup ({"validate", "files", "row", "insert", "commit"} \X FaultNodes)


Orders == {<<"L1", "L2">>, <<"L2", "L1">>}

----------------------------------------------------------------------------
(* The state as a record, so that handlers compose *)

Cur == [tbs |-> to_be_stored, attrs_cache |-> attrs_cache,
        cache |-> inputlinks_cache, files |-> files, dbnode |-> dbnode,
        sess_nodes |-> sess_nodes, sess_links |-> sess_links,
        db_rows |-> db_rows, db_links |-> db_links,
        group |-> group, other_pending |-> w_links,
        commit_failed |-> FALSE, err |-> Ok]

Raise(S, e) == [S EXCEPT !.err = e]

is_stored(S, n) == ~S.tbs[n]

\* session.flush(): the rows the session holds are written and the new ones
\* get their key; the session flushes before a query, before a nested
\* transaction begins and before a commit
Flush(S) ==
    [S EXCEPT !.dbnode = [n \in Nodes |->
                             IF n \in S.sess_nodes
                             THEN [S.dbnode[n] EXCEPT !.id = PkOf[n]]
                             ELSE S.dbnode[n]]]

\* session.commit(): everything the session holds becomes durable
Commit(S) ==
    LET F == Flush(S)
    IN [F EXCEPT !.db_rows = [n \in Nodes |->
                                 IF n \in F.sess_nodes
                                 THEN [present |-> TRUE] @@ F.dbnode[n]
                                 ELSE NoRow],
                 !.db_links = F.sess_links]

\* session.rollback(): the session forgets what was not committed; row
\* objects of committed rows are expired and reloaded
Rollback(S) ==
    [S EXCEPT !.sess_nodes = {n \in Nodes : S.db_rows[n].present},
              !.sess_links = S.db_links,
              !.dbnode = [n \in Nodes |->
                             IF S.db_rows[n].present
                             THEN [f \in DOMAIN S.dbnode[n] |-> S.db_rows[n][f]]
                             ELSE S.dbnode[n]]]

----------------------------------------------------------------------------
(* Link validator *)

StrongType_createOnly(link_type) == link_type = "CREATE"

\* "link_type is LinkType.CREATE or link_type is LinkType.INPUT"
StrongType(link_type) == link_type = "CREATE" \/ link_type = "INPUT"

\* the links the transitive-closure table follows
StrongLinks(links) == {l \in links : l.type \in {"CREATE", "INPUT"}}

Step(links, R) == R \cup {l.output : l \in {x \in StrongLinks(links) : x.input \in R}}

RECURSIVE Closure(_, _)
Closure(links, R) ==
    LET T == Step(links, R) IN IF T = R THEN R ELSE Closure(links, T)

\* DbPath.query.filter_by(parent_id, child_id).exists()
DbPathExists(links, parent, child) ==
    child \in Closure(links, {l.output : l \in {x \in StrongLinks(links) : x.input = parent}})

UniqueViolation(links, dst, label) ==
    \E l \in links : l.output = dst /\ l.label = label
_do_create_link_swallowed(S, dst, src, label, link_type, fault) ==
    IF UniqueViolation(S.other_pending, dst, label)
    THEN Raise(S, Blocked)
    ELSE IF fault = <<"insert", dst>> \/ UniqueViolation(S.sess_links, dst, label)
    THEN Flush(S)
    ELSE [Flush(S) EXCEPT !.sess_links = @ \cup {Link(src, dst, label, link_type)}]

_do_create_link_unchecked(S, dst, src, label, link_type, fault) ==
    [Flush(S) EXCEPT !.sess_links = @ \cup {Link(src, dst, label, link_type)}]

\* "with session.begin_nested():" flushes the session, then the link is
\* inserted; an SQLAlchemyError becomes a UniquenessError
_do_create_link(S, dst, src, label, link_type, fault) ==
    IF UniqueViolation(S.other_pending, dst, label)
    THEN Raise(S, Blocked)
    ELSE IF fault = <<"insert", dst>> \/ UniqueViolation(S.sess_links, dst, label)
    THEN Raise(Flush(S), UniquenessError)
    ELSE [Flush(S) EXCEPT !.sess_links = @ \cup {Link(src, dst, label, link_type)}]

AutoLabel(idx) == "link_" \o ToString(idx)

AutoLabels == {AutoLabel(i) : i \in 1..(SafetyLimit + 1)}

\* DbLink.label.like("link%"), on the labels the model uses
LikeLink(label) == label \in AutoLabels

\* session.query(DbLink.label).filter(...): rows, each a 1-tuple (label,)
existing_from_autolabels(S, dst) ==
    {<<l.label>> : l \in {x \in S.sess_links : x.output = dst /\ LikeLink(x.label)}}

\* Python's ==  between a str and a row tuple: never equal
StrEqualsRow(label, row) == FALSE

\* "link_{}".format(idx) in existing_from_autolabels
InAutolabelQuery(S, dst, label) ==
    \E row \in existing_from_autolabels(S, dst) : StrEqualsRow(label, row)

RECURSIVE FirstFreeIdx(_, _, _)
FirstFreeIdx(S, dst, idx) ==
    IF InAutolabelQuery(S, dst, AutoLabel(idx))
    THEN FirstFreeIdx(S, dst, idx + 1)
    ELSE idx

AutoLabelLoop_noRetry(S, dst, src, link_type, idx, safety_counter, fault) ==
    _do_create_link(S, dst, src, AutoLabel(idx), link_type, fault)

RECURSIVE AutoLabelLoop(_, _, _, _, _, _, _)
AutoLabelLoop(S, dst, src, link_type, idx, safety_counter, fault) ==
    IF safety_counter + 1 > SafetyLimit
    THEN Raise(S, InternalError)
    ELSE LET S1 == _do_create_link(S, dst, src, AutoLabel(idx), link_type, fault)
         IN IF S1.err = UniquenessError
            THEN AutoLabelLoop(S, dst, src, link_type, idx + 1, safety_counter + 1, fault)
            ELSE S1
CycleCheck_reversed(S, dst, src, link_type) ==
    StrongType(link_type) /\ DbPathExists(S.sess_links, src, dst)

CycleCheck(S, dst, src, link_type) ==
    StrongType(link_type) /\ DbPathExists(S.sess_links, dst, src)

_add_dblink_from_noSelfCheck(S, dst, src, label, link_type, fault) ==
    IF S.tbs[dst] THEN Raise(S, ModificationNotAllowed)
    ELSE IF S.tbs[src] THEN Raise(S, ModificationNotAllowed)
    ELSE IF CycleCheck(S, dst, src, link_type) THEN Raise(Flush(S), CycleError)
    ELSE IF label = NoLabel
         THEN AutoLabelLoop(S, dst, src, link_type, FirstFreeIdx(S, dst, 1), 0, fault)
         ELSE _do_create_link(S, dst, src, label, link_type, fault)

_add_dblink_from_noStoredCheck(S, dst, src, label, link_type, fault) ==
    IF dst = src THEN Raise(S, SelfLinkError)
    ELSE IF CycleCheck(S, dst, src, link_type) THEN Raise(Flush(S), CycleError)
    ELSE IF label = NoLabel
         THEN AutoLabelLoop(S, dst, src, link_type, FirstFreeIdx(S, dst, 1), 0, fault)
         ELSE _do_create_link(S, dst, src, label, link_type, fault)
_add_dblink_from_storedCheckFirst(S, dst, src, label, link_type, fault) ==
    IF S.tbs[dst] THEN Raise(S, ModificationNotAllowed)
    ELSE IF S.tbs[src] THEN Raise(S, ModificationNotAllowed)
    ELSE IF dst = src THEN Raise(S, SelfLinkError)
    ELSE IF CycleCheck(S, dst, src, link_type) THEN Raise(Flush(S), CycleError)
    ELSE IF label = NoLabel
         THEN AutoLabelLoop(S, dst, src, link_type, FirstFreeIdx(S, dst, 1), 0, fault)
         ELSE _do_create_link(S, dst, src, label, link_type, fault)

\* the query of the cycle check flushes the session before it runs
_add_dblink_from(S, dst, src, label, link_type, fault) ==
    IF dst = src THEN Raise(S, SelfLinkError)
    ELSE IF S.tbs[dst] THEN Raise(S, ModificationNotAllowed)
    ELSE IF S.tbs[src] THEN Raise(S, ModificationNotAllowed)
    ELSE IF CycleCheck(S, dst, src, link_type) THEN Raise(Flush(S), CycleError)
    ELSE IF label = NoLabel
         THEN AutoLabelLoop(S, dst, src, link_type, FirstFreeIdx(S, dst, 1), 0, fault)
         ELSE _do_create_link(S, dst, src, label, link_type, fault)

----------------------------------------------------------------------------
(* Store transaction coordinator *)

CachedLabels(S, n) == {l \in Labels : S.cache[n][l] # NoEntry}

_check_are_parents_stored_skipped(S, n) == TRUE

_check_are_parents_stored(S, n) ==
    \A l \in CachedLabels(S, n) : is_stored(S, S.cache[n][l].src)

RECURSIVE FlushLabels(_, _, _, _)
FlushLabels(S, n, labels, fault) ==
    IF labels = <<>> THEN S
    ELSE LET label == Head(labels)
             e == S.cache[n][label]
         IN IF e = NoEntry THEN FlushLabels(S, n, Tail(labels), fault)
            ELSE LET S1 == _add_dblink_from(S, n, e.src, label, e.type, fault)
                 IN IF S1.err # Ok THEN S1
                    ELSE FlushLabels(S1, n, Tail(labels), fault)

\* the trailing "if with_transaction: commit, on SQLAlchemyError rollback"
CommitOrRollback(S, with_transaction, fault) ==
    IF ~with_transaction THEN S
    ELSE IF fault[1] = "commit" THEN [Rollback(S) EXCEPT !.commit_failed = TRUE]
    ELSE Commit(S)
_store_cached_input_links_onlyClear(S, n, with_transaction, fault, order) ==
    IF S.tbs[n] THEN Raise(S, ModificationNotAllowed)
    ELSE IF ~_check_are_parents_stored(S, n) THEN Raise(S, ModificationNotAllowed)
    ELSE CommitOrRollback([S EXCEPT !.cache[n] = EmptyLinkCache],
                          with_transaction, fault)
_store_cached_input_links_noStoredCheck(S, n, with_transaction, fault, order) ==
    IF ~_check_are_parents_stored(S, n) THEN Raise(S, ModificationNotAllowed)
    ELSE LET S1 == FlushLabels(S, n, order, fault)
         IN IF S1.err # Ok THEN S1
            ELSE CommitOrRollback([S1 EXCEPT !.cache[n] = EmptyLinkCache],
                                  with_transaction, fault)

_store_cached_input_links(S, n, with_transaction, fault, order) ==
    IF S.tbs[n] THEN Raise(S, ModificationNotAllowed)
    ELSE IF ~_check_are_parents_stored(S, n) THEN Raise(S, ModificationNotAllowed)
    ELSE LET S1 == FlushLabels(S, n, order, fault)
         IN IF S1.err # Ok THEN S1
            ELSE CommitOrRollback([S1 EXCEPT !.cache[n] = EmptyLinkCache],
                                  with_transaction, fault)

\* the "except:" clause of store
RestoreFiles(S, n) == [S EXCEPT !.files[n] = "sandbox"]

Autogroup(S, n) ==
    IF current_autogroup THEN [S EXCEPT !.group = @ \cup {n}] ELSE S
WriteRow_noAttributes(S, n) ==
    [S EXCEPT !.sess_nodes = @ \cup {n},
              !.attrs_cache[n] = [exists |-> FALSE, map |-> EmptyAttrs],
              !.tbs[n] = FALSE]

WriteRow_bumpPerAttribute(S, n) ==
    [S EXCEPT !.sess_nodes = @ \cup {n},
              !.dbnode[n].attributes = S.attrs_cache[n].map,
              !.dbnode[n].nodeversion =
                  @ + Cardinality({k \in Keys : S.attrs_cache[n].map[k] # NoVal}),
              !.attrs_cache[n] = [exists |-> FALSE, map |-> EmptyAttrs],
              !.tbs[n] = FALSE]

\* the row part of the try block of store
WriteRow(S, n) ==
    [S EXCEPT !.sess_nodes = @ \cup {n},
              !.dbnode[n].attributes = S.attrs_cache[n].map,
              !.attrs_cache[n] = [exists |-> FALSE, map |-> EmptyAttrs],
              !.tbs[n] = FALSE]
store_new_rowBeforeFiles(S, n, with_transaction, fault, order) ==
    IF fault = <<"validate", n>> THEN Raise(S, ValidationError)
    ELSE IF ~_check_are_parents_stored(S, n) THEN Raise(S, ModificationNotAllowed)
    ELSE IF fault = <<"row", n>> THEN Raise(S, RowError)
    ELSE LET S2 == WriteRow(S, n)
             S3 == _store_cached_input_links(S2, n, FALSE, fault, order)
         IN IF S3.err # Ok THEN S3
            ELSE IF fault = <<"files", n>> THEN Raise(S3, FileError)
            ELSE Autogroup(CommitOrRollback([S3 EXCEPT !.files[n] = "repository"],
                                            with_transaction, fault), n)

\* the body of "if self._to_be_stored:" in store
store_new(S, n, with_transaction, fault, order) ==
    IF fault = <<"validate", n>> THEN Raise(S, ValidationError)
    ELSE IF ~_check_are_parents_stored(S, n) THEN Raise(S, ModificationNotAllowed)
    ELSE IF fault = <<"files", n>> THEN Raise(S, FileError)
    ELSE LET S1 == [S EXCEPT !.files[n] = "repository"]
         IN IF fault = <<"row", n>> THEN Raise(RestoreFiles(S1, n), RowError)
            ELSE LET S2 == WriteRow(S1, n)
                     S3 == _store_cached_input_links(S2, n, FALSE, fault, order)
                 IN IF S3.err # Ok THEN RestoreFiles(S3, n)
                    ELSE Autogroup(CommitOrRollback(S3, with_transaction, fault), n)

store_unguarded(S, n, with_transaction, fault, order) ==
    store_new(S, n, with_transaction, fault, order)

store(S, n, with_transaction, fault, order) ==
    IF S.tbs[n] THEN store_new(S, n, with_transaction, fault, order) ELSE S

RECURSIVE StoreParents(_, _, _, _, _)
StoreParents(S, n, labels, fault, order) ==
    IF labels = <<>> THEN S
    ELSE LET e == S.cache[n][Head(labels)]
         IN IF e = NoEntry \/ is_stored(S, e.src)
            THEN StoreParents(S, n, Tail(labels), fault, order)
            ELSE LET S1 == store(S, e.src, FALSE, fault, order)
                 IN IF S1.err # Ok THEN S1
                    ELSE StoreParents(S1, n, Tail(labels), fault, order)

_store_input_nodes_skipped(S, n, fault, order) == S

_store_input_nodes(S, n, fault, order) ==
    IF ~S.tbs[n] THEN Raise(S, ModificationNotAllowed)
    ELSE StoreParents(S, n, order, fault, order)

GrandparentsStored_skipped(S, n) == TRUE

\* "for each parent, check that all its inputs are stored"
GrandparentsStored(S, n) ==
    \A l \in CachedLabels(S, n) : _check_are_parents_stored(S, S.cache[n][l].src)

store_all(S, n, with_transaction, fault, order) ==
    IF ~S.tbs[n] THEN Raise(S, ModificationNotAllowed)
    ELSE IF ~GrandparentsStored(S, n) THEN Raise(S, ModificationNotAllowed)
    ELSE LET S1 == _store_input_nodes(S, n, fault, order)
         IN IF S1.err # Ok THEN S1
            ELSE LET S2 == store(S1, n, FALSE, fault, order)
                 IN IF S2.err # Ok THEN S2
                    ELSE LET S3 == _store_cached_input_links(S2, n, FALSE, fault, order)
                         IN IF S3.err # Ok THEN S3
                            ELSE CommitOrRollback(S3, with_transaction, fault)

----------------------------------------------------------------------------
(* Link addition and replacement *)

\* AbstractNode.add_link_from: direct insert when both ends are stored,
\* otherwise the link is queued in the destination's cache
add_link_from(S, dst, src, label, link_type, fault) ==
    IF is_stored(S, dst) /\ is_stored(S, src)
    THEN _add_dblink_from(S, dst, src, label, link_type, fault)
    ELSE IF label = NoLabel THEN Raise(S, ModificationNotAllowed)
    ELSE IF S.cache[dst][label] # NoEntry THEN Raise(S, UniquenessError)
    ELSE [S EXCEPT !.cache[dst][label] = [src |-> src, type |-> link_type]]

\* DbLink.query.filter_by(label=label).first(); session.delete(link)
_remove_dblink_from(S, label, pick) ==
    IF \E l \in S.sess_links : l.label = label
    THEN [S EXCEPT !.sess_links = @ \ {pick}]
    ELSE S

_replace_dblink_from(S, dst, src, label, link_type, pick, fault) ==
    LET S1 == _add_dblink_from(S, dst, src, label, "UNSPECIFIED", fault)
    IN IF S1.err # UniquenessError THEN S1
       ELSE LET S2 == _remove_dblink_from(S, label, pick)
                S3 == _add_dblink_from(S2, dst, src, label, link_type, fault)
            IN IF S3.err = Blocked THEN S3
               ELSE IF S3.err # Ok THEN Raise(Rollback(S3), S3.err)
               ELSE IF fault[1] = "commit" THEN Raise(Rollback(S3), RowError)
               ELSE Commit(S3)

----------------------------------------------------------------------------
(* Attributes *)

_increment_version_number_db(S, n) ==
    Commit([S EXCEPT !.dbnode[n].nodeversion = @ + 1,
                     !.sess_nodes = @ \cup {n}])
_set_attr_noIncrement(S, n, key, value) ==
    IF S.tbs[n]
    THEN [S EXCEPT !.attrs_cache[n].map[key] = value]
    ELSE [S EXCEPT !.dbnode[n].attributes[key] = value]

_set_attr(S, n, key, value) ==
    IF S.tbs[n]
    THEN [S EXCEPT !.attrs_cache[n].map[key] = value]
    ELSE _increment_version_number_db([S EXCEPT !.dbnode[n].attributes[key] = value], n)

_del_attr_absentIgnored(S, n, key) ==
    IF S.tbs[n]
    THEN [S EXCEPT !.attrs_cache[n].map[key] = NoVal]
    ELSE _increment_version_number_db(
             [S EXCEPT !.dbnode[n].attributes[key] = NoVal], n)

\* unstored: del self._attrs_cache[key]; stored: dbnode.del_attr(key) and a
\* version increment
_del_attr(S, n, key) ==
    IF S.tbs[n]
    THEN IF S.attrs_cache[n].map[key] = NoVal
         THEN Raise(S, AttributeError)
         ELSE [S EXCEPT !.attrs_cache[n].map[key] = NoVal]
    ELSE IF S.dbnode[n].attributes[key] = NoVal
         THEN Raise(S, AttributeError)
         ELSE _increment_version_number_db(
                  [S EXCEPT !.dbnode[n].attributes[key] = NoVal], n)

set_extra(S, n, key, value) ==
    IF S.tbs[n] THEN Raise(S, ModificationNotAllowed)
    ELSE _increment_version_number_db([S EXCEPT !.dbnode[n].extras[key] = value], n)

reset_extras(S, n, new_extras) ==
    IF S.tbs[n] THEN Raise(S, ModificationNotAllowed)
    ELSE _increment_version_number_db([S EXCEPT !.dbnode[n].extras = new_extras], n)

\* get_extra(key) without a default: no check of the stored status
get_extra(S, n, key) ==
    IF S.dbnode[n].extras[key] = NoVal
    THEN [err |-> AttributeError, value |-> NoVal]
    ELSE [err |-> Ok, value |-> S.dbnode[n].extras[key]]

\* del_extra(key): dbnode.del_extra(key), no check of the stored status and
\* no version increment
del_extra(S, n, key) ==
    IF S.dbnode[n].extras[key] = NoVal
    THEN Raise(S, AttributeError)
    ELSE Commit([S EXCEPT !.dbnode[n].extras[key] = NoVal,
                          !.sess_nodes = @ \cup {n}])

\* the value of "default" when the caller gives none
NoDefault == -1

\* get_attr(key, default): the cache of an unstored node, the attributes of
\* the row object of a stored one; an absent key gives the default, if any
get_attr(S, n, key, default) ==
    LET attrs == IF S.tbs[n] THEN S.attrs_cache[n].map ELSE S.dbnode[n].attributes
    IN IF attrs[key] # NoVal
       THEN [err |-> Ok, value |-> attrs[key]]
       ELSE IF default # NoDefault
       THEN [err |-> Ok, value |-> default]
       ELSE [err |-> AttributeError, value |-> NoVal]
----------------------------------------------------------------------------
(* Computer, label, description, construction and copy *)

set_computer_unguarded(S, n, computer) ==
    [S EXCEPT !.dbnode[n].dbcomputer = computer]

\* set_computer: only an unstored node takes a computer
set_computer(S, n, computer) ==
    IF S.tbs[n]
    THEN [S EXCEPT !.dbnode[n].dbcomputer = computer]
    ELSE Raise(S, ModificationNotAllowed)

\* label of a node: written to the row object, and for a stored node saved
\* with a version increment
_update_db_label_field(S, n, field_value) ==
    LET S1 == [S EXCEPT !.dbnode[n].label = field_value]
    IN IF S.tbs[n] THEN S1 ELSE _increment_version_number_db(S1, n)

_update_db_description_field(S, n, field_value) ==
    LET S1 == [S EXCEPT !.dbnode[n].description = field_value]
    IN IF S.tbs[n] THEN S1 ELSE _increment_version_number_db(S1, n)

\* Node() without a dbnode: a new unstored object with a new row object and an
\* empty attribute cache; the link cache of a new object is empty
__init__(S, newobject, uuid, type) ==
    [S EXCEPT !.tbs[newobject] = TRUE,
              !.dbnode[newobject] = DbNode(uuid, type),
              !.attrs_cache[newobject] = [exists |-> TRUE, map |-> EmptyAttrs],
              !.cache[newobject] = EmptyLinkCache,
              !.files[newobject] = "sandbox"]

\* iterattrs(): the cache of an unstored node, the row object of a stored one
iterattrs(S, n) ==
    IF S.tbs[n] THEN S.attrs_cache[n].map ELSE S.dbnode[n].attributes

\* the order in which copy meets the attributes
AttrKeySeq == <<"x", "y", SEALED_KEY>>

CopyAttrs_withSealed(S, attrs, newobject, keys) ==
    [S EXCEPT !.attrs_cache[newobject].map = attrs]

\* "for k, v in self.iterattrs(): if k != SEALED_KEY: newobject._set_attr(k, v)"
RECURSIVE CopyAttrs(_, _, _, _)
CopyAttrs(S, attrs, newobject, keys) ==
    IF keys = <<>> THEN S
    ELSE LET k == Head(keys)
         IN IF attrs[k] # NoVal /\ k # SEALED_KEY
            THEN CopyAttrs(_set_attr(S, newobject, k, attrs[k]), attrs, newobject, Tail(keys))
            ELSE CopyAttrs(S, attrs, newobject, Tail(keys))

\* copy(): a new object of the class of n that inherits type, label,
\* description, computer and the attributes but the sealed marker; its files
\* are added to the sandbox folder of the new object
copy(S, n, newobject, uuid) ==
    LET S1 == __init__(S, newobject, uuid, S.dbnode[n].type)
        S2 == [S1 EXCEPT !.dbnode[newobject].type = S.dbnode[n].type,
                         !.dbnode[newobject].label = S.dbnode[n].label,
                         !.dbnode[newobject].description = S.dbnode[n].description,
                         !.dbnode[newobject].dbcomputer = S.dbnode[n].dbcomputer]
    IN CopyAttrs(S2, iterattrs(S, n), newobject, AttrKeySeq)

load_as_new(S, n) == [S EXCEPT !.tbs[n] = TRUE]

\* Node.__init__ with a dbnode: the object of an existing row
load(S, n) ==
    [S EXCEPT !.tbs[n] = FALSE,
              !.attrs_cache[n] = [exists |-> FALSE, map |-> EmptyAttrs],
              !.cache[n] = EmptyLinkCache,
              !.files[n] = "repository",
              !.sess_nodes = @ \cup {n},
              !.dbnode[n] = [f \in DOMAIN S.dbnode[n] |-> S.db_rows[n][f]]]

----------------------------------------------------------------------------
(* Actions *)

Apply(S, op, n) ==
    /\ S.err # Blocked
    /\ to_be_stored' = S.tbs
    /\ attrs_cache' = S.attrs_cache
    /\ inputlinks_cache' = S.cache
    /\ files' = S.files
    /\ dbnode' = S.dbnode
    /\ sess_nodes' = S.sess_nodes
    /\ sess_links' = S.sess_links
    /\ db_rows' = S.db_rows
    /\ db_links' = S.db_links
    /\ group' = S.group
    /\ last' = [op |-> op, node |-> n, result |-> S.err,
                commit_failed |-> S.commit_failed]
    /\ UNCHANGED <<current_autogroup, w_links>>

InitWith(autogroup) ==
    /\ to_be_stored = [n \in Nodes |-> TRUE]
    /\ attrs_cache = [n \in Nodes |-> [exists |-> TRUE, map |-> EmptyAttrs]]
    /\ inputlinks_cache = [n \in Nodes |-> EmptyLinkCache]
    /\ files = [n \in Nodes |-> "sandbox"]
    /\ dbnode = [n \in Nodes |-> DbNode(InitialUuid[n], InitialType[n])]
    /\ sess_nodes = {}
    /\ sess_links = {}
    /\ db_rows = [n \in Nodes |-> NoRow]
    /\ db_links = {}
    /\ current_autogroup = autogroup
    /\ group = {}
    /\ w_links = {}
    /\ last = [op |-> "init", node |-> NoNode, result |-> Ok, commit_failed |-> FALSE]

Init == InitWith(FALSE)

Parents(n) == {inputlinks_cache[n][l].src : l \in Labels} \ {NoNode}

\* a fault is injected only where the call can meet it, and the iteration
\* order of a dictionary matters only when it has two keys
Relevant(fault, order, nodes, kinds) ==
    /\ fault[1] \in kinds \cup {"none"}
    /\ fault[2] \in nodes \cup {NoNode}
    /\ (\A n \in nodes : Cardinality(Parents(n)) < 2) => order = <<"L1", "L2">>

CachedLinks == {c \in {Link(inputlinks_cache[n][l].src, n, l, inputlinks_cache[n][l].type) :
                            n \in Nodes, l \in Labels} : c.input # NoNode}

\* the callers create at most MaxLinks links
RoomForLink == Cardinality(sess_links \cup db_links \cup CachedLinks) < MaxLinks

Store(F) ==
    \E n \in Nodes, fault \in F, order \in Orders :
        /\ Relevant(fault, order, {n}, {"validate", "files", "row", "insert", "commit"})
        /\ Apply(store(Cur, n, TRUE, fault, order), "store", n)

StoreAll(F) ==
    \E n \in Nodes, fault \in F, order \in Orders :
        /\ Relevant(fault, order, {n} \cup Parents(n),
                    {"validate", "files", "row", "insert", "commit"})
        /\ Apply(store_all(Cur, n, TRUE, fault, order), "store_all", n)

StoreCachedInputLinks(F) ==
    \E n \in Nodes, fault \in F, order \in Orders :
        /\ Relevant(fault, order, {n}, {"insert", "commit"})
        /\ Apply(_store_cached_input_links(Cur, n, TRUE, fault, order), "flush", n)

AddLinkFrom(R, F) ==
    \E r \in R, fault \in F :
        /\ RoomForLink
        /\ Relevant(fault, <<"L1", "L2">>, {r[2]}, {"insert"})
        /\ Apply(add_link_from(Cur, r[2], r[1], r[3], r[4], fault), "add_link", r[2])

ReplaceDbLinkFrom(R, F) ==
    \E r \in R, fault \in F :
        /\ RoomForLink
        /\ Relevant(fault, <<"L1", "L2">>, {r[2]}, {"insert", "commit"})
        /\ \E pick \in {l \in sess_links : l.label = r[3]} \cup {Link(NoNode, NoNode, r[3], "none")} :
              /\ (pick.input = NoNode) = ~(\E l \in sess_links : l.label = r[3])
              /\ Apply(_replace_dblink_from(Cur, r[2], r[1], r[3], r[4], pick, fault),
                       "replace_link", r[2])

SetAttr ==
    \E n \in AttrNodes, key \in StoreKeys, value \in Vals :
        /\ dbnode[n].nodeversion < MaxVersion
        /\ Apply(_set_attr(Cur, n, key, value), "set_attr", n)

\* Node(dbnode=row): a fresh object wrapping a committed row
Load ==
    \E n \in Nodes :
        /\ db_rows[n].present
        /\ Apply(load(Cur, n), "load", n)

\* aiida.orm.autogroup.current_autogroup is set or cleared by the caller
SetAutogroup ==
    /\ current_autogroup' = ~current_autogroup
    /\ last' = [op |-> "set_autogroup", node |-> NoNode, result |-> Ok,
                commit_failed |-> FALSE]
    /\ UNCHANGED <<to_be_stored, attrs_cache, inputlinks_cache, files, dbnode,
                   sess_nodes, sess_links, db_rows, db_links, group, w_links>>

\* A second caller with its own session: it sees the committed rows and its
\* own uncommitted links, and works on nodes loaded from committed rows
WriterView ==
    [Cur EXCEPT !.tbs = [n \in Nodes |-> ~db_rows[n].present],
                !.sess_links = db_links \cup w_links,
                !.other_pending = sess_links \ db_links]

WriterAddLink(R) ==
    \E r \in R :
        /\ db_rows[r[1]].present /\ db_rows[r[2]].present
        /\ Cardinality(sess_links \cup db_links \cup w_links) < MaxLinks
        /\ LET W == _add_dblink_from(WriterView, r[2], r[1], r[3], r[4], NoFault)
           IN /\ W.err # Blocked
              /\ w_links' = W.sess_links \ db_links
              /\ last' = [op |-> "writer_add", node |-> r[2], result |-> W.err,
                          commit_failed |-> FALSE]
        /\ UNCHANGED <<to_be_stored, attrs_cache, inputlinks_cache, files, dbnode,
                       sess_nodes, sess_links, db_rows, db_links,
                       current_autogroup, group>>

\* the second caller commits: its links become visible to every session
WriterCommit ==
    /\ w_links # {}
    /\ db_links' = db_links \cup w_links
    /\ sess_links' = sess_links \cup w_links
    /\ w_links' = {}
    /\ last' = [op |-> "writer_commit", node |-> NoNode, result |-> Ok,
                commit_failed |-> FALSE]
    /\ UNCHANGED <<to_be_stored, attrs_cache, inputlinks_cache, files, dbnode,
                   sess_nodes, db_rows, current_autogroup, group>>

\* the store coordinator and the link cache, with failing collaborators
Next ==
    \/ Store(Faults)
    \/ StoreAll(Faults)
    \/ StoreCachedInputLinks(Faults)
    \/ AddLinkFrom(StoreRequests, Faults)
    \/ SetAttr
    \/ Load

Spec == Init /\ [][Next]_vars

\* the link validator: additions and replacements on the graph
NextGraph ==
    \/ Store({NoFault})
    \/ StoreAll({NoFault})
    \/ StoreCachedInputLinks({NoFault})
    \/ AddLinkFrom(LinkRequests, {NoFault})
    \/ ReplaceDbLinkFrom(LinkRequests, {NoFault})

SpecGraph == Init /\ [][NextGraph]_vars

\* the autogroup hook
NextAutogroup ==
    \/ Store({NoFault})
    \/ StoreAll({NoFault})
    \/ AddLinkFrom(StoreRequests, {NoFault})
    \/ SetAutogroup

SpecAutogroup == Init /\ [][NextAutogroup]_vars

\* two callers on the same backend
NextRace ==
    \/ Store({NoFault})
    \/ StoreCachedInputLinks({NoFault})
    \/ AddLinkFrom(RaceRequests, {NoFault})
    \/ ReplaceDbLinkFrom(RaceRequests, {NoFault})
    \/ WriterAddLink(RaceRequests)
    \/ WriterCommit

SpecRace == Init /\ [][NextRace]_vars

\* callers that leave the label to the validator: unlabelled links onto one
\* stored destination, and one explicit label of the automatic form
AutoRequests ==
    { <<"A", "B", NoLabel, "INPUT">>,
      <<"A", "B", "link_2", "UNSPECIFIED">> }

MaxAutoLinks == 101

AddAutoLink(R) ==
    \E r \in R :
        /\ ~to_be_stored[r[1]] /\ ~to_be_stored[r[2]]
        /\ Cardinality(sess_links \cup db_links \cup w_links) < MaxAutoLinks
        /\ Apply(add_link_from(Cur, r[2], r[1], r[3], r[4], NoFault), "add_link", r[2])

\* the first store() of a node that is an end of the requested links
StoreNew ==
    \E n \in {r[1] : r \in AutoRequests} \cup {r[2] : r \in AutoRequests} :
        /\ to_be_stored[n]
        /\ Apply(store(Cur, n, TRUE, NoFault, <<"L1", "L2">>), "store", n)

NextAutolabel ==
    \/ StoreNew
    \/ AddAutoLink(AutoRequests)
    \/ WriterAddLink(AutoRequests)
    \/ WriterCommit

SpecAutolabel == Init /\ [][NextAutolabel]_vars

\* callers that work on the attributes and extras of one node, before and
\* after it is stored, and link it once it is stored
AttrLinkRequests == { <<"A", "B", "L1", "INPUT">> }

MaxAttrVersion == 3

ExtrasInputs == [Keys -> Vals \cup {NoVal}]

SetAttrAny ==
    \E n \in AttrNodes, key \in Keys, value \in Vals :
        /\ dbnode[n].nodeversion < MaxAttrVersion
        /\ Apply(_set_attr(Cur, n, key, value), "set_attr", n)

DelAttr ==
    \E n \in AttrNodes, key \in Keys :
        /\ dbnode[n].nodeversion < MaxAttrVersion
        /\ Apply(_del_attr(Cur, n, key), "del_attr", n)

SetExtra ==
    \E n \in AttrNodes, key \in Keys, value \in Vals :
        /\ dbnode[n].nodeversion < MaxAttrVersion
        /\ Apply(set_extra(Cur, n, key, value), "set_extra", n)

ResetExtras ==
    \E n \in AttrNodes, new_extras \in ExtrasInputs :
        /\ dbnode[n].nodeversion < MaxAttrVersion
        /\ Apply(reset_extras(Cur, n, new_extras), "reset_extras", n)

GetExtra ==
    \E n \in AttrNodes, key \in Keys :
        /\ dbnode[n].nodeversion <= MaxAttrVersion
        /\ Apply(Raise(Cur, get_extra(Cur, n, key).err), "get_extra", n)

DelExtra ==
    \E n \in AttrNodes, key \in Keys :
        /\ dbnode[n].nodeversion <= MaxAttrVersion
        /\ Apply(del_extra(Cur, n, key), "del_extra", n)

NextAttrs ==
    \/ StoreNew
    \/ SetAttrAny
    \/ DelAttr
    \/ SetExtra
    \/ ResetExtras
    \/ GetExtra
    \/ DelExtra
    \/ AddLinkFrom(AttrLinkRequests, {NoFault})

SpecAttrs == Init /\ [][NextAttrs]_vars

----------------------------------------------------------------------------
(* Properties *)
\* callers that give a node a computer, a label, a description, attributes,
\* the sealed marker, extras and an input link, store it and copy it
CopyAttrKeys == {"x", SEALED_KEY}
MaxCopyVersion == 2

SetComputer ==
    \E n \in AttrNodes, computer \in Computers :
        /\ dbnode[n].nodeversion <= MaxCopyVersion
        /\ Apply(set_computer(Cur, n, computer), "set_computer", n)

SetLabel ==
    \E n \in AttrNodes, field_value \in Texts :
        /\ dbnode[n].nodeversion < MaxCopyVersion
        /\ Apply(_update_db_label_field(Cur, n, field_value), "set_label", n)

SetDescription ==
    \E n \in AttrNodes, field_value \in Texts :
        /\ dbnode[n].nodeversion < MaxCopyVersion
        /\ Apply(_update_db_description_field(Cur, n, field_value), "set_description", n)

SetAttrOrSeal ==
    \E n \in AttrNodes, key \in CopyAttrKeys, value \in Vals :
        /\ dbnode[n].nodeversion < MaxCopyVersion
        /\ Apply(_set_attr(Cur, n, key, value), "set_attr", n)

SetExtraX ==
    \E n \in AttrNodes, value \in Vals :
        /\ dbnode[n].nodeversion < MaxCopyVersion
        /\ Apply(set_extra(Cur, n, "x", value), "set_extra", n)

\* newobject = n.copy(): the name C is bound to the copy
Copy ==
    \E n \in {"A", "B"}, uuid \in UUIDs \ {dbnode[m].uuid : m \in Nodes} :
        /\ to_be_stored["C"]
        /\ Apply(copy(Cur, n, "C", uuid), "copy", n)

NextCopy ==
    \/ StoreNew
    \/ SetComputer
    \/ SetLabel
    \/ SetDescription
    \/ SetAttrOrSeal
    \/ SetExtraX
    \/ AddLinkFrom(AttrLinkRequests, {NoFault})
    \/ Copy

SpecCopy == Init /\ [][NextCopy]_vars
\* the autogroup hook in stores that meet a failure
AutogroupRequests == {<<"A", "B", "L1", "INPUT">>}
AutogroupFaults == {NoFault, <<"insert", "B">>, <<"commit", "B">>}

NextAutogroupFaults ==
    \/ Store(AutogroupFaults)
    \/ StoreAll(AutogroupFaults)
    \/ AddLinkFrom(AutogroupRequests, {NoFault})
    \/ SetAutogroup

SpecAutogroupFaults == Init /\ [][NextAutogroupFaults]_vars
\* callers that queue two links into B and store the nodes one by one, with
\* every failure a store can meet
TwoParentRequests ==
    { <<"A", "B", "L1", "INPUT">>,
      <<"C", "B", "L2", "INPUT">> }

NextStore ==
    \/ Store(Faults)
    \/ AddLinkFrom(TwoParentRequests, {NoFault})

SpecStore == Init /\ [][NextStore]_vars
\* callers that queue, insert, replace and flush the links into B, and store
\* the nodes one by one, with every failure a store or a flush can meet
NextLinks ==
    \/ Store(Faults)
    \/ StoreCachedInputLinks(Faults)
    \/ AddLinkFrom(TwoParentRequests, {NoFault})
    \/ ReplaceDbLinkFrom(TwoParentRequests, {NoFault})

SpecLinks == Init /\ [][NextLinks]_vars

StateVars == <<to_be_stored, attrs_cache, inputlinks_cache, files, dbnode,
               sess_nodes, sess_links, db_rows, db_links, group>>
\* get_inputs(also_labels=True): the (label, source) pairs of the links into
\* the node that the session sees, then those of the cache; a cached label
\* that is also the label of such a link raises the internal error
get_inputs(S, n) ==
    LET inputs_list == {<<l.label, l.input>> : l \in {x \in S.sess_links : x.output = n}}
        input_list_keys == {i[1] : i \in inputs_list}
        cached == {k \in Labels : S.cache[n][k] # NoEntry}
    IN IF cached \cap input_list_keys # {}
       THEN [err |-> InternalError, inputs |-> {}]
       ELSE [err |-> Ok,
             inputs |-> inputs_list \cup {<<k, S.cache[n][k].src>> : k \in cached}]

CachedLinksOf(n) ==
    {Link(inputlinks_cache[n][l].src, n, l, inputlinks_cache[n][l].type) :
         l \in {k \in Labels : inputlinks_cache[n][k] # NoEntry}}

HasUnstoredParent(n) ==
    \E l \in Labels : /\ inputlinks_cache[n][l] # NoEntry
                      /\ to_be_stored[inputlinks_cache[n][l].src]

\* the last call was op on node n
Called(op, n) == last.op = op /\ last.node = n

\* C1: a store() of an unstored node that fails (it raises, or its commit
\* fails) leaves either no durable change (rows and links as before, files
\* back in the sandbox) or the complete unit (row, attributes, every cached
\* link) durable.
C1_FailedStoreLeavesNoPartialState ==
    [][\A n \in Nodes :
        (Called("store", n)' /\ to_be_stored[n]
            /\ (last'.result # Ok \/ last'.commit_failed))
        => \/ /\ db_rows' = db_rows
              /\ db_links' = db_links
              /\ files'[n] = "sandbox"
           \/ /\ db_rows'[n].present
              /\ db_rows'[n].attributes = attrs_cache[n].map
              /\ CachedLinksOf(n) \subseteq db_links'
              /\ files'[n] = "repository"]_vars

\* C2: a store() of an unstored node that raises leaves the node unstored,
\* with its attribute cache as it was before the call.
C2_FailedStoreLeavesNodeUnstored ==
    [][\A n \in Nodes :
        (Called("store", n)' /\ to_be_stored[n] /\ last'.result # Ok)
        => /\ to_be_stored'[n]
           /\ attrs_cache'[n] = attrs_cache[n]]_vars

\* C3: a flush of the link cache that raises leaves the links of the backend
\* as they were (none of the cache's links inserted) and the cache unchanged.
C3_FailedFlushIsAllOrNothing ==
    [][\A n \in Nodes :
        (Called("flush", n)' /\ last'.result # Ok)
        => /\ sess_links' = sess_links
           /\ db_links' = db_links
           /\ inputlinks_cache'[n] = inputlinks_cache[n]]_vars

\* C4: store() on a node whose flag is already false returns without error
\* and changes nothing: no file move, no row, no version, no link, no group.
C4_StoreIsIdempotent ==
    [][\A n \in Nodes :
        (Called("store", n)' /\ ~to_be_stored[n])
        => /\ last'.result = Ok
           /\ UNCHANGED StateVars]_vars

\* a repeated store with the autogroup set did not attach the node
C4_Witness ==
    \E n \in Nodes : /\ Called("store", n) /\ last.result = Ok
                     /\ ~to_be_stored[n]
                     /\ current_autogroup /\ n \notin group

\* C5: once the storage flag of a node is false it stays false under every
\* operation, and a node loaded from a row has the flag false.
C5_FlagNeverReturnsToTrue ==
    [][\A n \in Nodes :
        /\ ~to_be_stored[n] => ~to_be_stored'[n]
        /\ Called("load", n)' => ~to_be_stored'[n]]_vars

\* an operation on a stored node failed, and the node is still stored
C5_Witness ==
    \E n \in Nodes : /\ Called("flush", n) /\ last.result = CycleError
                     /\ ~to_be_stored[n]

StrongKinds == {"CREATE", "INPUT"}

StrongSucc(links, R) ==
    R \cup {l.output : l \in {x \in links : x.type \in StrongKinds /\ x.input \in R}}

RECURSIVE StrongReach(_, _)
StrongReach(links, R) ==
    LET T == StrongSucc(links, R) IN IF T = R THEN R ELSE StrongReach(links, T)

\* a path of at least one strong link leads from a to b
StrongPath(links, a, b) ==
    b \in StrongReach(links, {l.output : l \in {x \in links : x.type \in StrongKinds /\ x.input = a}})

\* C6: the strong links (CREATE, INPUT) of the backend, committed or in the
\* session, never form a cycle.
C6_StrongLinksAcyclic ==
    \A n \in Nodes : ~StrongPath(db_links, n, n) /\ ~StrongPath(sess_links, n, n)

\* a link that would close a cycle was rejected while strong links are durable
C6_Witness ==
    /\ last.result = CycleError
    /\ \E l \in db_links : l.type \in StrongKinds

UniqueLabels(links) ==
    \A a, b \in links : (a.output = b.output /\ a.label = b.label) => a = b

\* C7: no two links of the backend share (destination, label): not among the
\* committed links, not in the view of either session, and not in the states
\* a replacement passes through (after its removal, after its insertion).
C7_DestinationLabelUnique ==
    /\ UniqueLabels(db_links)
    /\ UniqueLabels(sess_links)
    /\ UniqueLabels(db_links \cup w_links)
    /\ UniqueLabels(sess_links \cup w_links)
    /\ \A r \in RaceRequests, pick \in sess_links :
          pick.label = r[3]
          => LET S2 == _remove_dblink_from(Cur, r[3], pick)
                 S3 == _add_dblink_from(S2, r[2], r[1], r[3], r[4], NoFault)
             IN /\ UniqueLabels(S2.sess_links \cup w_links)
                /\ UniqueLabels(S3.sess_links \cup w_links)

\* the second caller asked for a label that a committed link already has
C7_Witness ==
    /\ last.op = "writer_add" /\ last.result = UniquenessError
    /\ \E l \in db_links : l.output = last.node

C9_StoreAllStoresParentsNodeLinks ==
    \A n \in Nodes, order \in Orders :
        (to_be_stored[n] /\ GrandparentsStored(Cur, n))
        => LET R == store_all(Cur, n, TRUE, NoFault, order)
           IN /\ R.err = Ok
              /\ ~R.tbs[n] /\ R.db_rows[n].present
              /\ \A l \in CachedLinksOf(n) :
                    /\ ~R.tbs[l.input]
                    /\ to_be_stored[l.input] => R.db_rows[l.input].present
                    /\ l \in R.db_links
              /\ R.cache[n] = EmptyLinkCache

\* store_all returned and a link into the node is durable
C9_Witness ==
    \E n \in Nodes : /\ Called("store_all", n) /\ last.result = Ok
                     /\ ~last.commit_failed
                     /\ \E l \in db_links : l.output = n /\ db_rows[l.input].present

\* C10: store_all() on an unstored node one of whose parents has a cached
\* link from an unstored node raises ModificationNotAllowed and stores
\* nothing.
C10_StoreAllWithUnstoredGrandparentDenied ==
    \A n \in Nodes, fault \in Faults, order \in Orders :
        (to_be_stored[n] /\ \E l \in CachedLinksOf(n) : HasUnstoredParent(l.input))
        => store_all(Cur, n, TRUE, fault, order) = Raise(Cur, ModificationNotAllowed)

C10_Witness ==
    \E n \in Nodes : /\ Called("store_all", n) /\ last.result = ModificationNotAllowed
                     /\ to_be_stored[n]
                     /\ \E l \in CachedLinksOf(n) :
                           /\ to_be_stored[l.input] /\ HasUnstoredParent(l.input)

\* C11: a link from a node to itself is refused with the self-link error by
\* the link validator, whatever the stored status of the node, the label
\* (explicit or automatic) and the link type, and no link from a node to
\* itself is ever in the backend.
C11_SelfLinkAlwaysRejected ==
    /\ \A n \in Nodes, label \in Labels \cup {NoLabel}, link_type \in LinkTypes :
          _add_dblink_from(Cur, n, n, label, link_type, NoFault)
              = Raise(Cur, SelfLinkError)
    /\ \A l \in sess_links \cup db_links : l.input # l.output

\* a self link was asked for on a stored node and refused
C11_Witness ==
    \E n \in Nodes : /\ Called("add_link", n) /\ last.result = SelfLinkError
                     /\ ~to_be_stored[n] /\ db_rows[n].present

\* C12: for stored nodes a, b with a path of strong links from a to b, a
\* strong link b -> a is refused with the cycle error and nothing is
\* inserted, while a link b -> a of a non-strong type under a free label
\* (or no label) is inserted.
C12_StrongBackLinkRejectedWeakAccepted ==
    \A a, b \in Nodes :
        (/\ a # b /\ ~to_be_stored[a] /\ ~to_be_stored[b]
         /\ (StrongPath(db_links, a, b) \/ StrongPath(sess_links, a, b)))
        => /\ \A label \in Labels \cup {NoLabel}, link_type \in StrongKinds :
                _add_dblink_from(Cur, a, b, label, link_type, NoFault)
                    = Raise(Cur, CycleError)
           /\ \A label \in Labels, link_type \in LinkTypes \ StrongKinds :
                ~(\E l \in sess_links : l.output = a /\ l.label = label)
                => LET R == _add_dblink_from(Cur, a, b, label, link_type, NoFault)
                   IN /\ R.err = Ok
                      /\ R.sess_links = sess_links \cup {Link(b, a, label, link_type)}
           /\ \A link_type \in LinkTypes \ StrongKinds :
                LET R == _add_dblink_from(Cur, a, b, NoLabel, link_type, NoFault)
                IN /\ R.err = Ok
                   /\ \E l \in R.sess_links \ sess_links :
                         l.input = b /\ l.output = a /\ l.type = link_type

\* a weak link was added against a strong path
C12_Witness ==
    /\ last.op = "add_link" /\ last.result = Ok
    /\ \E l \in sess_links :
          /\ l.type \notin StrongKinds /\ l.output = last.node
          /\ StrongPath(sess_links, l.output, l.input)

\* the outcome of a labelled insertion in the view V of a session: refused
\* with the uniqueness error and nothing changed when a link of the view has
\* the destination and label, inserted when none has (and no other session
\* holds the pair uncommitted)
LabelledInsertOutcome(V) ==
    \A dst, src \in Nodes, label \in Labels, link_type \in LinkTypes :
        (/\ dst # src /\ ~V.tbs[dst] /\ ~V.tbs[src]
         /\ ~(link_type \in StrongKinds /\ StrongPath(V.sess_links, dst, src)))
        => LET R == _add_dblink_from(V, dst, src, label, link_type, NoFault)
           IN IF \E l \in V.sess_links : l.output = dst /\ l.label = label
              THEN R = Raise(V, UniquenessError)
              ELSE IF \E l \in V.other_pending : l.output = dst /\ l.label = label
              THEN R.sess_links = V.sess_links
              ELSE /\ R.err = Ok
                   /\ R.sess_links = V.sess_links \cup {Link(src, dst, label, link_type)}

\* C13: of two insertions onto the same stored destination with the same
\* explicit label the first is inserted and the second is refused with the
\* uniqueness error, leaving the first link as it was and adding none; in
\* the session of either caller.
C13_SecondSameLabelInsertRejected ==
    LabelledInsertOutcome(Cur) /\ LabelledInsertOutcome(WriterView)

\* a second insertion under a label in use was refused, the first link stays
C13_Witness ==
    \E n \in Nodes :
        /\ Called("add_link", n) /\ last.result = UniquenessError
        /\ ~to_be_stored[n]
        /\ \E l \in sess_links : l.output = n /\ l.label = "L1" /\ l.input = "A"

\* the labels of the links onto dst that a session with view V can see or
\* must wait for
LabelsOn(V, dst) ==
    {l.label : l \in {x \in V.sess_links \cup V.other_pending : x.output = dst}}

\* the outcome of an unlabelled insertion in the view V of a session: one new
\* link under an automatic label no link on the destination has, or the
\* internal error of the exhausted retry loop with nothing inserted, or a
\* wait for another session
UnlabelledInsertOutcome(V) ==
    \A r \in AutoRequests :
        (~V.tbs[r[1]] /\ ~V.tbs[r[2]])
        => LET R == _add_dblink_from(V, r[2], r[1], NoLabel, r[4], NoFault)
           IN \/ /\ R.err = Ok
                 /\ \E label \in AutoLabels \ LabelsOn(V, r[2]) :
                       R.sess_links = V.sess_links \cup {Link(r[1], r[2], label, r[4])}
              \/ R = Raise(V, InternalError)
              \/ R = Raise(V, Blocked)

\* C14: with two callers inserting unlabelled links onto one destination,
\* every insertion that succeeds gets a label link_<n> that no other link on
\* the destination has, one that runs out of retries ends with the internal
\* error, and no two links on the destination ever share a label.
C14_ConcurrentAutoLabelsDistinct ==
    /\ UnlabelledInsertOutcome(Cur)
    /\ UnlabelledInsertOutcome(WriterView)
    /\ UniqueLabels(sess_links \cup db_links \cup w_links)

\* an unlabelled insertion found link_1 taken by the other caller and got link_2
C14_Witness ==
    /\ last.op = "add_link" /\ last.result = Ok
    /\ \E l \in sess_links \ db_links : l.label = "link_2" /\ l.type = "INPUT"
    /\ \E l \in db_links : l.label = "link_1" /\ l.output = last.node

\* the smallest n >= 1 such that link_<n> labels no link onto dst
SmallestFreeIdx(links, dst) ==
    CHOOSE n \in 1..(MaxAutoLinks + 1) :
        /\ ~(\E l \in links : l.output = dst /\ l.label = AutoLabel(n))
        /\ \A m \in 1..(n - 1) : \E l \in links : l.output = dst /\ l.label = AutoLabel(m)

\* C15: with no other caller at work, an unlabelled insertion onto a stored
\* destination creates the link under link_<n>, n the smallest integer >= 1
\* whose label no link onto the destination has.
C15_AutoLabelIsSmallestFree ==
    \A r \in AutoRequests :
        (~to_be_stored[r[1]] /\ ~to_be_stored[r[2]] /\ w_links = {})
        => LET R == _add_dblink_from(Cur, r[2], r[1], NoLabel, r[4], NoFault)
           IN /\ R.err = Ok
              /\ R.sess_links = sess_links \cup
                    {Link(r[1], r[2], AutoLabel(SmallestFreeIdx(sess_links, r[2])), r[4])}

\* C16: when store() of an unstored node returns, get_attr(k) on the stored
\* node gives, for every key k, the value the cache held for k, and fails
\* for every key the cache did not hold.
C16_AttributesRoundTripThroughStore ==
    \A n \in Nodes, fault \in Faults, order \in Orders :
        to_be_stored[n]
        => LET R == store(Cur, n, TRUE, fault, order)
           IN R.err = Ok
              => /\ ~R.tbs[n]
                 /\ \A k \in Keys : get_attr(R, n, k, NoDefault) = get_attr(Cur, n, k, NoDefault)

\* a node stored with an attribute in its cache reads it back
C16_Witness ==
    \E n \in Nodes, k \in Keys :
        /\ Called("store", n) /\ last.result = Ok /\ ~to_be_stored[n]
        /\ get_attr(Cur, n, k, NoDefault).err = Ok
        /\ get_attr(Cur, n, k, NoDefault).value \in Vals

\* C17: the first store() of a node leaves the version counter at the initial
\* version, whatever the number of attributes in the cache.
C17_StoreDoesNotBumpVersion ==
    \A n \in Nodes, fault \in Faults, order \in Orders :
        to_be_stored[n]
        => LET R == store(Cur, n, TRUE, fault, order)
           IN R.err = Ok
              => /\ R.dbnode[n].nodeversion = 1
                 /\ R.db_rows[n].present => R.db_rows[n].nodeversion = 1

\* a node with an attribute was stored and its durable version is 1
C17_Witness ==
    \E n \in Nodes, k \in Keys :
        /\ Called("store", n) /\ last.result = Ok /\ ~last.commit_failed
        /\ db_rows[n].present /\ db_rows[n].attributes[k] # NoVal
        /\ db_rows[n].nodeversion = 1

\* C18: set_extra, get_extra and del_extra on an unstored node each raise
\* ModificationNotAllowed and change nothing.
C18_ExtrasDeniedOnUnstoredNode ==
    \A n \in AttrNodes, key \in Keys, value \in Vals :
        to_be_stored[n]
        => /\ set_extra(Cur, n, key, value) = Raise(Cur, ModificationNotAllowed)
           /\ get_extra(Cur, n, key).err = ModificationNotAllowed
           /\ del_extra(Cur, n, key) = Raise(Cur, ModificationNotAllowed)

\* the attribute and extra mutations
MutationOps == {"set_attr", "del_attr", "set_extra", "reset_extras", "del_extra"}

\* C19: on a stored node every attribute mutation, extra mutation and link
\* addition onto the node that returns raises the node's version, and no
\* operation lowers the version of any node.
C19_VersionStrictlyIncreases ==
    [][/\ \A n \in Nodes :
            (/\ last'.node = n /\ last'.result = Ok /\ ~to_be_stored[n]
             /\ \/ last'.op \in MutationOps
                \/ /\ last'.op = "add_link"
                   /\ \E l \in sess_links' \ sess_links : l.output = n)
            => dbnode'[n].nodeversion > dbnode[n].nodeversion
       /\ \A n \in Nodes : dbnode'[n].nodeversion >= dbnode[n].nodeversion]_vars

ActiveAttrs(n) ==
    IF to_be_stored[n] THEN attrs_cache[n].map ELSE dbnode[n].attributes

C22_CachesExistIffUnstored ==
    \A n \in Nodes :
        /\ attrs_cache[n].exists <=> to_be_stored[n]
        /\ ~to_be_stored[n] => CachedLinksOf(n) = {}

\* C23: set_computer on a stored node raises ModificationNotAllowed and
\* changes nothing, and no step changes the computer of a node that is
\* stored, in the row object or in the committed row.
C23_ComputerImmutableOnceStored ==
    [][\A n \in Nodes :
          ~to_be_stored[n] =>
              /\ dbnode'[n].dbcomputer = dbnode[n].dbcomputer
              /\ db_rows[n].present =>
                     db_rows'[n].dbcomputer = db_rows[n].dbcomputer
              /\ (last'.op = "set_computer" /\ last'.node = n) =>
                     /\ last'.result = ModificationNotAllowed
                     /\ UNCHANGED StateVars]_vars

\* set_computer was refused on a stored node that has a computer and
\* whose committed row has it
C23_Witness ==
    \E n \in Nodes :
        /\ Called("set_computer", n) /\ last.result = ModificationNotAllowed
        /\ ~to_be_stored[n]
        /\ dbnode[n].dbcomputer \in Computers
        /\ db_rows[n].dbcomputer = dbnode[n].dbcomputer

\* C24: copy() of a node, stored or not, builds a new unstored object with
\* a uuid no object has, no key, the type, label, description and computer
\* of the original and its attributes but the sealed marker, with no
\* queued link and no extras; the original, the session and the database
\* are left as they were.
C24_CopyDuplicatesAllButSealedLinksExtras ==
    \A n \in Nodes \ {"C"}, uuid \in UUIDs \ {dbnode[m].uuid : m \in Nodes} :
        LET R == copy(Cur, n, "C", uuid)
            new == R.dbnode["C"]
        IN /\ R.err = Ok
           /\ R.tbs["C"]
           /\ new.uuid = uuid /\ new.id = NoPk
           /\ new.type = dbnode[n].type
           /\ new.label = dbnode[n].label
           /\ new.description = dbnode[n].description
           /\ new.dbcomputer = dbnode[n].dbcomputer
           /\ new.attributes = EmptyAttrs /\ new.nodeversion = 1
           /\ R.attrs_cache["C"] =
                  [exists |-> TRUE,
                   map |-> [k \in AttrKeys |-> IF k = SEALED_KEY THEN NoVal
                                               ELSE ActiveAttrs(n)[k]]]
           /\ R.cache["C"] = EmptyLinkCache
           /\ new.extras = EmptyExtras
           /\ \A m \in Nodes \ {"C"} :
                  /\ R.tbs[m] = to_be_stored[m]
                  /\ R.dbnode[m] = dbnode[m]
                  /\ R.attrs_cache[m] = attrs_cache[m]
                  /\ R.cache[m] = inputlinks_cache[m]
                  /\ R.files[m] = files[m]
           /\ R.sess_nodes = sess_nodes /\ R.sess_links = sess_links
           /\ R.db_rows = db_rows /\ R.db_links = db_links
           /\ R.group = group

\* a stored, sealed node with an attribute, a label, a computer, an extra and
\* an input link was copied, and the copy holds the attribute
C24_Witness ==
    /\ Called("copy", "B") /\ last.result = Ok
    /\ ~to_be_stored["B"]
    /\ dbnode["B"].attributes[SEALED_KEY] # NoVal
    /\ dbnode["B"].attributes["x"] # NoVal
    /\ dbnode["B"].extras["x"] # NoVal
    /\ dbnode["B"].label # "" /\ dbnode["B"].dbcomputer # NoComputer
    /\ \E l \in db_links : l.output = "B"
    /\ attrs_cache["C"].map["x"] = dbnode["B"].attributes["x"]
    /\ attrs_cache["C"].map[SEALED_KEY] = NoVal

\* C25: no step changes the uuid of a node; a key, once assigned, never
\* changes; and a node gets its key only in a step that is a store() or
\* store_all() call that does not raise.
C25_UuidFixedPkAssignedBySuccessfulStore ==
    [][\A n \in Nodes :
          /\ dbnode'[n].uuid = dbnode[n].uuid
          /\ dbnode[n].id # NoPk => dbnode'[n].id = dbnode[n].id
          /\ (dbnode[n].id = NoPk /\ dbnode'[n].id # NoPk) =>
                 /\ last'.op \in {"store", "store_all"}
                 /\ last'.result = Ok]_vars

\* C26: a store(), store_all() or link flush whose commit failed left the
\* session rolled back to the committed database and raised the error of
\* the commit.
C26_CommitFailureRolledBackAndRaised ==
    (last.op \in {"store", "store_all", "flush"} /\ last.commit_failed) =>
        /\ sess_links = db_links
        /\ sess_nodes = {n \in Nodes : db_rows[n].present}
        /\ last.result = RowError

\* C27: store() moves the files, then writes the row, then inserts the
\* cached links: when the move of the files fails nothing else was done;
\* when the write of the row fails no link was inserted and the node is
\* still to be stored; when the insert of a cached link fails the row was
\* written and no link was inserted before it; and a store() that meets no
\* failure leaves the files in place, the row and every queued link in the
\* session.
C27_FilesThenRowThenLinks ==
    \A n \in FaultNodes, order \in Orders :
        (to_be_stored[n] /\ _check_are_parents_stored(Cur, n)) =>
            /\ store(Cur, n, TRUE, <<"files", n>>, order) = Raise(Cur, FileError)
            /\ LET R == store(Cur, n, TRUE, <<"row", n>>, order)
               IN /\ R.err = RowError
                  /\ R.tbs[n] /\ n \notin R.sess_nodes
                  /\ R.sess_links = sess_links
            /\ LET R == store(Cur, n, TRUE, <<"insert", n>>, order)
               IN CachedLinksOf(n) # {} =>
                      /\ R.err = UniquenessError
                      /\ n \in R.sess_nodes
                      /\ R.sess_links = sess_links
            /\ LET R == store(Cur, n, FALSE, NoFault, order)
               IN R.err = Ok =>
                      /\ R.files[n] = "repository"
                      /\ n \in R.sess_nodes
                      /\ CachedLinksOf(n) \subseteq R.sess_links

\* a store() of a node with a queued link from a stored node failed at the
\* write of the row: no link of the node is in the session
C27_Witness ==
    \E n \in FaultNodes :
        /\ Called("store", n) /\ last.result = RowError
        /\ CachedLinksOf(n) # {} /\ ~HasUnstoredParent(n)
        /\ to_be_stored[n] /\ files[n] = "sandbox"
        /\ \A l \in sess_links : l.output # n

\* C28: a node joins the group only in a step that is a store() or
\* store_all() call on a node that was to be stored, that returns without
\* error and whose commit succeeded, so that the row of the node and its
\* queued links are committed; and no step changes the group while no
\* autogroup is current.
C28_AutogroupOnlyAfterCommit ==
    [][/\ \A n \in Nodes :
             (n \notin group /\ n \in group') =>
                 /\ last'.op \in {"store", "store_all"}
                 /\ last'.result = Ok /\ ~last'.commit_failed
                 /\ to_be_stored[n]
                 /\ db_rows'[n].present
                 /\ CachedLinksOf(n) \subseteq db_links'
       /\ ~current_autogroup => group' = group]_vars

C30_FailedStoreIsRetryable ==
    \A n \in Nodes, order \in Orders :
        (/\ Called("store", n)
         /\ last.result \in {ValidationError, FileError, RowError, UniquenessError}
         /\ ~HasUnstoredParent(n)) =>
            LET R == store(Cur, n, TRUE, NoFault, order)
            IN /\ R.err = Ok
               /\ ~R.tbs[n]
               /\ R.db_rows[n].present
               /\ R.db_rows[n].attributes = ActiveAttrs(n)
               /\ CachedLinksOf(n) \subseteq R.db_links

\* C31: _add_dblink_from between two different nodes one of which is still
\* to be stored raises ModificationNotAllowed and changes nothing, the link
\* flush does the same on a node that is to be stored or has a parent that
\* is, and both ends of every link of the session and of the backend are
\* stored nodes.
C31_LinksConnectStoredNodes ==
    /\ \A dst \in Nodes, src \in Nodes, label \in Labels \cup {NoLabel},
          link_type \in LinkTypes :
           (dst # src /\ (to_be_stored[dst] \/ to_be_stored[src])) =>
               _add_dblink_from(Cur, dst, src, label, link_type, NoFault)
                   = Raise(Cur, ModificationNotAllowed)
    /\ \A n \in Nodes, order \in Orders :
           (to_be_stored[n] \/ HasUnstoredParent(n)) =>
               _store_cached_input_links(Cur, n, TRUE, NoFault, order)
                   = Raise(Cur, ModificationNotAllowed)
    /\ \A l \in sess_links \cup db_links :
           ~to_be_stored[l.input] /\ ~to_be_stored[l.output]

\* a direct link insertion was refused for an unstored end while the backend
\* holds a link
C31_Witness ==
    \E n \in Nodes :
        /\ Called("replace_link", n) /\ last.result = ModificationNotAllowed
        /\ db_links # {}
        /\ \E m \in Nodes : to_be_stored[m]

\* C32: the link flush on a node that is to be stored raises
\* ModificationNotAllowed and changes nothing; on a stored node with an
\* empty cache it returns without error, inserts no link and leaves the
\* links of the session and every cache as they are; and right after a
\* flush that succeeded, a second flush changes nothing at all.
C32_FlushOnlyWhenStoredAndRepeatable ==
    \A n \in Nodes, order \in Orders :
        LET R == _store_cached_input_links(Cur, n, TRUE, NoFault, order)
        IN /\ to_be_stored[n] => R = Raise(Cur, ModificationNotAllowed)
           /\ (~to_be_stored[n] /\ CachedLinksOf(n) = {}) =>
                  /\ R.err = Ok
                  /\ R.sess_links = sess_links
                  /\ R.cache = inputlinks_cache
           /\ (Called("flush", n) /\ last.result = Ok /\ ~last.commit_failed) =>
                  R = Cur

\* a flush that moved a queued link to the backend succeeded
C32_Witness ==
    \E n \in Nodes :
        /\ Called("flush", n) /\ last.result = Ok /\ ~last.commit_failed
        /\ ~to_be_stored[n] /\ CachedLinksOf(n) = {}
        /\ \E l \in db_links : l.output = n
        /\ \E m \in Nodes : to_be_stored[m]

\* C33: a node whose row is in the backend has its files in the repository
\* folder; and after a store() that raised at the write of the row or at the
\* insert of a queued link, the files of the node are back in the sandbox
\* folder and neither the session nor the backend holds a row of the node.
C33_RowImpliesFilesInPlace ==
    \A n \in Nodes :
        /\ db_rows[n].present => files[n] = "repository"
        /\ (Called("store", n) /\ last.result \in {RowError, UniquenessError}) =>
               /\ files[n] = "sandbox"
               /\ n \notin sess_nodes
               /\ ~db_rows[n].present

\* C34: _add_dblink_from rejects a link with the error of the first rule it
\* breaks: a self link raises the self-link error whatever the storage flag
\* of the node; a link with an end that is to be stored raises
\* ModificationNotAllowed; a strong link that closes a cycle raises the
\* cycle error even when its label is taken on the destination; and a
\* rejected call leaves every link and every cache as it was.
C34_ValidatorChecksInOrder ==
    \A dst \in Nodes, src \in Nodes, label \in Labels \cup {NoLabel},
       link_type \in LinkTypes :
        LET R == _add_dblink_from(Cur, dst, src, label, link_type, NoFault)
        IN /\ dst = src => R = Raise(Cur, SelfLinkError)
           /\ (dst # src /\ (to_be_stored[dst] \/ to_be_stored[src])) =>
                  R = Raise(Cur, ModificationNotAllowed)
           /\ (/\ dst # src /\ ~to_be_stored[dst] /\ ~to_be_stored[src]
               /\ StrongType(link_type)
               /\ DbPathExists(sess_links, dst, src)) => R.err = CycleError
           /\ R.err \notin {Ok, Blocked} =>
                  /\ R.sess_links = sess_links /\ R.db_links = db_links
                  /\ R.cache = inputlinks_cache

\* a self link on a node that is still to be stored was refused as a self
\* link while the session holds links
C34_Witness ==
    \E n \in Nodes :
        /\ Called("replace_link", n) /\ last.result = SelfLinkError
        /\ to_be_stored[n]
        /\ sess_links # {}

\* the rows DbLink.query.filter_by(label=label).first() can return
FirstWithLabel(label) ==
    IF \E l \in sess_links : l.label = label
    THEN {l \in sess_links : l.label = label}
    ELSE {Link(NoNode, NoNode, label, "none")}

\* C35: after _replace_dblink_from(src, label, link_type) returns without
\* error on a stored destination, the links into the destination under that
\* label are exactly the one link from src of the requested type, whether a
\* link with that label existed before or not.
C35_ReplaceLeavesOneLinkOfRequestedType ==
    \A dst \in Nodes, src \in Nodes, label \in Labels, link_type \in LinkTypes :
        \A pick \in FirstWithLabel(label) :
            LET R == _replace_dblink_from(Cur, dst, src, label, link_type, pick, NoFault)
            IN (~to_be_stored[dst] /\ R.err = Ok) =>
                   {l \in R.sess_links : l.output = dst /\ l.label = label}
                       = {Link(src, dst, label, link_type)}

\* C36: _replace_dblink_from(src, label, link_type) on destination dst,
\* whether it returns or raises, leaves every link into another node as it
\* was: in the session, and in the backend where no committed link into
\* another node is lost.
C36_ReplaceTouchesOnlyItsDestination ==
    \A dst \in Nodes, src \in Nodes, label \in Labels, link_type \in LinkTypes :
        \A pick \in FirstWithLabel(label) :
            LET R == _replace_dblink_from(Cur, dst, src, label, link_type, pick, NoFault)
            IN /\ {l \in R.sess_links : l.output # dst}
                      = {l \in sess_links : l.output # dst}
               /\ {l \in db_links : l.output # dst} \subseteq R.db_links

\* C37: when _replace_dblink_from(src, label, link_type) raises, the link
\* that was in place under that label on the destination is still there
\* unchanged, and the error is the one the failed step raised.
C37_FailedReplaceKeepsOldLink ==
    \A dst \in Nodes, src \in Nodes, label \in Labels, link_type \in LinkTypes :
        \A pick \in FirstWithLabel(label) :
            LET R == _replace_dblink_from(Cur, dst, src, label, link_type, pick, NoFault)
            IN R.err \notin {Ok, Blocked} =>
                   /\ R.err \in {SelfLinkError, ModificationNotAllowed,
                                 CycleError, UniquenessError}
                   /\ {l \in R.sess_links : l.output = dst /\ l.label = label}
                          = {l \in sess_links : l.output = dst /\ l.label = label}

\* C38: when two callers add strong links in opposite directions between
\* the same stored nodes, at most one of the two becomes durable: the
\* committed links never hold a cycle of strong links.
C38_NoDurableStrongCycle ==
    \A n \in Nodes : ~DbPathExists(db_links, n, n)

\* C39: with no other caller holding uncommitted links, an unlabelled
\* insertion between two stored nodes that passes the self-link and cycle
\* checks returns without error and adds one link, however many links of the
\* form link_<n> the destination already has.
C39_UnlabelledInsertNeverExhaustsRetries ==
    \A r \in {q \in AutoRequests : q[3] = NoLabel} :
        ( /\ ~to_be_stored[r[1]] /\ ~to_be_stored[r[2]]
          /\ w_links = {}
          /\ ~CycleCheck(Cur, r[2], r[1], r[4]) )
        => LET R == _add_dblink_from(Cur, r[2], r[1], NoLabel, r[4], NoFault)
           IN /\ R.err = Ok
              /\ Cardinality(R.sess_links) = Cardinality(sess_links) + 1

\* C40: in every state the labels in a node's link cache are none of the
\* labels of the links into that node, committed or in the session, so that
\* get_inputs() never raises the internal error.
C40_CacheLabelsDisjointFromLinks ==
    \A n \in Nodes :
        /\ get_inputs(Cur, n).err = Ok
        /\ \A l \in db_links \cup sess_links :
               l.output = n => inputlinks_cache[n][l.label] = NoEntry

====
